---- MODULE Spec2Model ----
(***************************************************************************)
(* Model of the QA-agent backend: the FastAPI handlers of backend/app.py   *)
(* and the RAGEngine of backend/rag_engine.py.                             *)
(*                                                                         *)
(* Representation.  A Python str is a sequence of atoms; an atom is a TLA+ *)
(* string standing for a run of characters that no operation of the code   *)
(* splits (" " is the whitespace atom, "#" and "." the selector prefixes,  *)
(* a file name is one atom).  A path is the sequence of its components.    *)
(* Optional[str] is a record [some, raw]; None is [some |-> FALSE].        *)
(* A page markup is the sequence of its tags, a tag the record of its id,  *)
(* name and class attributes (an absent attribute is the empty str).       *)
(***************************************************************************)
EXTENDS Integers, Sequences, FiniteSets, TLC

VARIABLES
    uploadDir,             \* data/uploads: file name -> file content
    store,                 \* the Chroma collection behind rag_engine.vector_store
    latest_html_path,      \* RAGEngine.latest_html_path
    latest_html_content,   \* RAGEngine.latest_html_content
    running,               \* the request whose handler holds the event loop, 0 if none
    pc,                    \* per request: position inside build_knowledge_base
    files,                 \* per request: the local `files` of build_knowledge_base
    buildNo,               \* per request: ordinal of the build it performs (ghost)
    builds,                \* number of builds that passed the corpus checks (ghost)
    result                 \* outcome of the handler step that ran last

vars == <<uploadDir, store, latest_html_path, latest_html_content,
          running, pc, files, buildNo, builds, result>>

---------------------------------------------------------------------------
(* Bounds *)

NumRequests == 2
MaxBuilds == 2
MaxCases == 2
MaxScriptLen == 2

Requests == 1..NumRequests

---------------------------------------------------------------------------
(* Python values *)

None == [some |-> FALSE, raw |-> <<>>]
Some(s) == [some |-> TRUE, raw |-> s]

\* bool(x) of an Optional[str]: None and "" are both falsy
Truthy(o) == o.some /\ o.raw # <<>>

NoPath == <<>>

RECURSIVE SeqToSet(_)
SeqToSet(s) == IF s = <<>> THEN {} ELSE {Head(s)} \cup SeqToSet(Tail(s))

\* all sequences over S of length at most n
SeqsUpTo(S, n) == UNION {[1..k -> S] : k \in 0..n}

\* the orders in which os.listdir may return the names of S
Orders(S) == {o \in [1..Cardinality(S) -> S] : \A i, j \in DOMAIN o : i # j => o[i] # o[j]}

---------------------------------------------------------------------------
(* File names, extensions and paths *)

UPLOAD_DIR == "data/uploads"
HTML_EXTENSIONS == {".html", ".htm"}

FileNames == {"a.md", "p.html", "Q.HTM"}

\* Path(name).suffix and os.path.splitext(name)[1] on the names of the model
Suffix(name) ==
    CASE name = "a.md" -> ".md"
      [] name = "p.html" -> ".html"
      [] name = "Q.HTM" -> ".HTM"
      [] OTHER -> ""

\* str.lower on the extensions of the model
Lower(ext) == CASE ext = ".HTM" -> ".htm" [] OTHER -> ext

Join(dir, name) == <<dir, name>>
Basename(path) == <<path[Len(path)]>>
FileOf(path) == path[Len(path)]

---------------------------------------------------------------------------
(* Page markups and file contents *)

Tag(i, n, c) == [id |-> i, name |-> n, class |-> c]

EmptyMarkup == <<>>
Markup1 == << Tag(<<"promo-code">>, <<"promo">>, << <<"btn">>, <<"primary">> >>),
              Tag(<<"apply-btn">>, <<>>, << <<"btn">> >>) >>
Markup2 == << Tag(<<"promo">>, <<"apply-btn">>, <<>>) >>
\* text without any attribute, the content of a support document
PlainText == << Tag(<<>>, <<>>, <<>>) >>

\* a file: whether its bytes decode as UTF-8, and its text
Content(ok, raw) == [utf8 |-> ok, raw |-> raw]

ContentsFor(name) ==
    CASE name = "a.md" -> {Content(TRUE, PlainText), Content(FALSE, EmptyMarkup)}
      [] name = "p.html" -> {Content(TRUE, EmptyMarkup), Content(TRUE, Markup1)}
      [] name = "Q.HTM" -> {Content(TRUE, Markup2)}
      [] OTHER -> {}

\* the batches a client may post to /upload-documents
UploadChoices ==
    UNION {{d \in [S -> UNION {ContentsFor(n) : n \in S}] :
                \A n \in S : d[n] \in ContentsFor(n)} : S \in SUBSET FileNames}

---------------------------------------------------------------------------
(* Construction *)

Init ==
    /\ uploadDir = <<>>
    /\ store = {}
    /\ latest_html_path = NoPath
    /\ latest_html_content = None
    /\ running = 0
    /\ pc = [r \in Requests |-> "idle"]
    /\ files = [r \in Requests |-> <<>>]
    /\ buildNo = [r \in Requests |-> 0]
    /\ builds = 0
    /\ result = [op |-> "init"]

---------------------------------------------------------------------------
(* POST /upload-documents *)

upload_documents(batch) ==
    /\ running = 0
    /\ uploadDir' = batch
    /\ result' = [op |-> "upload", filenames |-> DOMAIN batch]
    /\ UNCHANGED <<store, latest_html_path, latest_html_content,
                   running, pc, files, buildNo, builds>>

Upload == \E batch \in UploadChoices : upload_documents(batch)

---------------------------------------------------------------------------
(* The event loop.  Every handler of backend/app.py is an `async def` whose *)
(* body contains no await: once started it runs to its end before the loop *)
(* starts another handler.                                                 *)

\* does the coroutine hand the loop back at this point of build_knowledge_base?
Suspends(label) == FALSE

LoopAfter(r, label) == IF Suspends(label) THEN 0 ELSE r

---------------------------------------------------------------------------
(* RAGEngine: loading and ingestion *)

IsHtmlExt(ext) == Lower(ext) \in HTML_EXTENSIONS

Document(path) ==
    [source_document |-> Basename(path),
     doc_type |-> IF IsHtmlExt(Suffix(FileOf(path))) THEN "html" ELSE "support"]

\* open(...)/loader.load() of a path: fails on a missing or undecodable file
Readable(disk, path) == FileOf(path) \in DOMAIN disk /\ disk[FileOf(path)].utf8

\* the engine fields a load works on
Engine(st, path, content) == [store |-> st, path |-> path, content |-> content]

\* a load that records the markup but not the path it came from
LoadHtmlContentOnly(eng, disk, path) ==
    Engine(eng.store, eng.path, Some(disk[FileOf(path)].raw))

\* _load_html: reading the markup records it as the latest page
load_html(eng, disk, path) ==
    Engine(eng.store, path, Some(disk[FileOf(path)].raw))

\* _load_with_metadata: [raised, docs, eng]
load_with_metadata(eng, disk, path) ==
    IF ~Readable(disk, path)
    THEN [raised |-> TRUE, docs |-> <<>>, eng |-> eng]
    ELSE [raised |-> FALSE,
          docs |-> <<Document(path)>>,
          eng |-> IF IsHtmlExt(Suffix(FileOf(path)))
                  THEN load_html(eng, disk, path) ELSE eng]

\* the for loop of ingest_documents (lines 49-51), stopped by the first error
RECURSIVE LoadAll(_, _, _, _)
LoadAll(eng, disk, paths, docs) ==
    IF paths = <<>> THEN [raised |-> FALSE, docs |-> docs, eng |-> eng]
    ELSE LET one == load_with_metadata(eng, disk, Head(paths))
         IN IF one.raised
            THEN [raised |-> TRUE, docs |-> docs, eng |-> one.eng]
            ELSE LoadAll(one.eng, disk, Tail(paths), docs \o one.docs)

\* split_documents: a chunk inherits the metadata of its document
\* (every document of the model is shorter than chunk_size, so one chunk each)
Chunk(doc, b) ==
    [source_document |-> doc.source_document, doc_type |-> doc.doc_type, build |-> b]

split_documents(docs, b) == {Chunk(docs[i], b) : i \in DOMAIN docs}

\* vector_store.add_documents
add_documents(st, chunks) == st \cup chunks

\* an ingestion that inserts each file's chunks as soon as the file is loaded
IngestPerFile(eng, disk, paths, b) ==
    LET loaded == LoadAll(eng, disk, paths, <<>>)
        chunks == split_documents(loaded.docs, b)
    IN [raised |-> loaded.raised,
        eng |-> Engine(add_documents(loaded.eng.store, chunks),
                       loaded.eng.path, loaded.eng.content),
        n |-> IF loaded.raised THEN 0 ELSE Cardinality(chunks)]

\* ingest_documents: [raised, eng, n]
ingest_documents(eng, disk, paths, b) ==
    LET loaded == LoadAll(eng, disk, paths, <<>>)
        chunks == split_documents(loaded.docs, b)
    IN IF loaded.raised
       THEN [raised |-> TRUE, eng |-> loaded.eng, n |-> 0]
       ELSE [raised |-> FALSE,
             eng |-> Engine(add_documents(loaded.eng.store, chunks),
                            loaded.eng.path, loaded.eng.content),
             n |-> Cardinality(chunks)]

---------------------------------------------------------------------------
(* RAGEngine.clear_database *)

\* vector_store.delete_collection(): a call that raises has deleted nothing
delete_collection(st, raises) == IF raises THEN st ELSE {}

\* a clear that lets the exception of delete_collection escape
ClearPropagates(raises) == raises

\* lines 104-108: does clear_database raise when delete_collection does?
\* `except Exception` catches it and only prints a warning
clear_raises(raises) == FALSE

\* the exception is printed and swallowed; Chroma(persist_directory=CHROMA_PATH)
\* then opens whatever collection the persistent location holds
clear_database(eng, raises) == Engine(delete_collection(eng.store, raises), NoPath, None)

---------------------------------------------------------------------------
(* POST /build-knowledge-base *)

PathList(order) == [i \in DOMAIN order |-> Join(UPLOAD_DIR, order[i])]

html_files(paths) == {p \in SeqToSet(paths) : Lower(Suffix(FileOf(p))) \in HTML_EXTENSIONS}
support_files(paths) == {p \in SeqToSet(paths) : Lower(Suffix(FileOf(p))) \notin HTML_EXTENSIONS}

\* corpus checks without the one for support documents
CorpusCheckNoSupport(paths) ==
    IF paths = <<>> THEN "no_files"
    ELSE IF html_files(paths) = {} THEN "no_html"
    ELSE "ok"

\* lines 41-50: the status the corpus checks answer with
corpus_check(paths) ==
    IF paths = <<>> THEN "no_files"
    ELSE IF html_files(paths) = {} THEN "no_html"
    ELSE IF support_files(paths) = {} THEN "no_support"
    ELSE "ok"

BuildResult(status, paths, b, n) ==
    [op |-> "build", status |-> status,
     corpus |-> {FileOf(p) : p \in SeqToSet(paths)}, build |-> b, chunks_processed |-> n]

\* lines 39-50: list the upload area and check the corpus
BuildReject(r) ==
    /\ running = 0
    /\ pc[r] = "idle"
    /\ \E order \in Orders(DOMAIN uploadDir) :
         LET paths == PathList(order) IN
         /\ corpus_check(paths) # "ok"
         /\ result' = BuildResult(corpus_check(paths), paths, 0, 0)
    /\ UNCHANGED <<uploadDir, store, latest_html_path, latest_html_content,
                   running, pc, files, buildNo, builds>>

BuildBegin(r) ==
    /\ running = 0
    /\ pc[r] = "idle"
    /\ builds < MaxBuilds
    /\ \E order \in Orders(DOMAIN uploadDir) :
         LET paths == PathList(order) IN
         /\ corpus_check(paths) = "ok"
         /\ files' = [files EXCEPT ![r] = paths]
         /\ result' = BuildResult("started", paths, builds + 1, 0)
    /\ builds' = builds + 1
    /\ buildNo' = [buildNo EXCEPT ![r] = builds + 1]
    /\ pc' = [pc EXCEPT ![r] = "clear"]
    /\ running' = LoopAfter(r, "checked")
    /\ UNCHANGED <<uploadDir, store, latest_html_path, latest_html_content>>

\* line 52
BuildClear(r) ==
    /\ running \in {0, r}
    /\ pc[r] = "clear"
    /\ \E raises \in BOOLEAN :
         LET eng == clear_database(Engine(store, latest_html_path, latest_html_content), raises)
         IN IF clear_raises(raises)
            THEN \* an exception leaving line 52 ends the request with a 500
                 /\ UNCHANGED <<store, latest_html_path, latest_html_content>>
                 /\ pc' = [pc EXCEPT ![r] = "idle"]
                 /\ running' = 0
                 /\ result' = BuildResult("store_error", files[r], buildNo[r], 0)
            ELSE /\ store' = eng.store
                 /\ latest_html_path' = eng.path
                 /\ latest_html_content' = eng.content
                 /\ pc' = [pc EXCEPT ![r] = "ingest"]
                 /\ running' = LoopAfter(r, "cleared")
                 /\ UNCHANGED result
    /\ UNCHANGED <<uploadDir, files, buildNo, builds>>

\* lines 53-55: an exception of ingest_documents ends the request with a 500
BuildIngest(r) ==
    /\ running \in {0, r}
    /\ pc[r] = "ingest"
    /\ LET out == ingest_documents(Engine(store, latest_html_path, latest_html_content),
                                   uploadDir, files[r], buildNo[r])
       IN /\ store' = out.eng.store
          /\ latest_html_path' = out.eng.path
          /\ latest_html_content' = out.eng.content
          /\ result' = BuildResult(IF out.raised THEN "load_error" ELSE "ok",
                                   files[r], buildNo[r], out.n)
    /\ pc' = [pc EXCEPT ![r] = "idle"]
    /\ files' = [files EXCEPT ![r] = <<>>]
    /\ buildNo' = [buildNo EXCEPT ![r] = 0]
    /\ running' = 0
    /\ UNCHANGED <<uploadDir, builds>>

---------------------------------------------------------------------------
(* Retrieval *)

TopK == 6

Min(a, b) == IF a < b THEN a ELSE b

\* retriever.invoke: the k nearest chunks, all of them when the collection
\* holds at most k; which ones are nearest is the embedding's business
similarity_search(st, k) == {S \in SUBSET st : Cardinality(S) = Min(k, Cardinality(st))}

\* _collect_sources
collect_sources(docs) == {d.source_document : d \in {x \in docs : x.source_document # <<>>}}

---------------------------------------------------------------------------
(* RAGEngine._validate_grounding *)

WS == " "

RECURSIVE LStrip(_)
LStrip(s) == IF s # <<>> /\ Head(s) = WS THEN LStrip(Tail(s)) ELSE s

RECURSIVE RStrip(_)
RStrip(s) == IF s # <<>> /\ s[Len(s)] = WS THEN RStrip(SubSeq(s, 1, Len(s) - 1)) ELSE s

\* str.strip
Strip(s) == RStrip(LStrip(s))

TestCase(tid, src) == [test_id |-> tid, grounded_in |-> src]

\* lines 219-223: the (test_id, grounded) pairs of the cases whose trimmed
\* grounded_in is not an allowed source, in the order of the plan
RECURSIVE invalid_cases(_, _)
invalid_cases(cases, allowed_sources) ==
    IF cases = <<>> THEN <<>>
    ELSE LET grounded == Strip(Head(cases).grounded_in)
         IN (IF grounded \notin allowed_sources
             THEN << <<Head(cases).test_id, grounded>> >> ELSE <<>>)
            \o invalid_cases(Tail(cases), allowed_sources)

\* line 225: f"{tid}:{src or 'missing'}"
GroundingDetail(invalid) ==
    [i \in DOMAIN invalid |->
        <<invalid[i][1], IF invalid[i][2] = <<>> THEN <<"missing">> ELSE invalid[i][2]>>]

\* a validator that raises only when every case is invalid (all for any)
ValidateGroundingAll(cases, allowed_sources) ==
    IF allowed_sources = {} THEN [raised |-> FALSE, detail |-> <<>>]
    ELSE LET invalid == invalid_cases(cases, allowed_sources)
         IN [raised |-> invalid # <<>> /\ Len(invalid) = Len(cases),
             detail |-> GroundingDetail(invalid)]

\* _validate_grounding: [raised, detail]
validate_grounding(cases, allowed_sources) ==
    IF allowed_sources = {} THEN [raised |-> FALSE, detail |-> <<>>]
    ELSE LET invalid == invalid_cases(cases, allowed_sources)
         IN [raised |-> invalid # <<>>, detail |-> GroundingDetail(invalid)]

---------------------------------------------------------------------------
(* POST /generate-test-cases *)

\* the language model's answer: whether it parses into a TestPlan, and its cases
Reply(parses, cases) == [parses |-> parses, test_cases |-> cases]

PlanResult(status, reply, returned, retrieved, allowed, detail) ==
    [op |-> "plan", status |-> status, reply |-> reply, returned |-> returned,
     retrieved |-> retrieved,
     test_cases |-> IF returned THEN reply.test_cases ELSE <<>>,
     allowed_sources |-> allowed, detail |-> detail]

generate_test_cases(context_docs, reply) ==
    LET allowed_sources == collect_sources(context_docs)
        checked == validate_grounding(reply.test_cases, allowed_sources)
    IN /\ running = 0
       /\ result' = IF ~reply.parses
                    THEN PlanResult("parse_error", reply, FALSE, context_docs, allowed_sources, <<>>)
                    ELSE IF checked.raised
                    THEN PlanResult("grounding_error", reply, FALSE, context_docs, allowed_sources,
                                    checked.detail)
                    ELSE PlanResult("ok", reply, TRUE, context_docs, allowed_sources, <<>>)
       /\ UNCHANGED <<uploadDir, store, latest_html_path, latest_html_content,
                      running, pc, files, buildNo, builds>>

GenerateTestCases(replies) ==
    \E context_docs \in similarity_search(store, TopK) :
        \E reply \in replies : generate_test_cases(context_docs, reply)

---------------------------------------------------------------------------
(* RAGEngine._get_latest_html_content *)

\* filename.lower().endswith((".html", ".htm"))
EndsWithHtml(name) == Lower(Suffix(name)) \in {".html", ".htm"}

\* a scan that takes the first file whatever its extension
FirstAny(order) == IF order = <<>> THEN 0 ELSE 1

\* lines 267-273: the first page file in the order os.listdir returns
FirstHtml(order) ==
    LET hits == {i \in DOMAIN order : EndsWithHtml(order[i])}
    IN IF hits = {} THEN 0 ELSE CHOOSE i \in hits : \A j \in hits : i <= j

\* [value, via, eng]: the markup returned, the branch that returned it, and
\* the engine fields afterwards
get_latest_html_content(eng, disk, order) ==
    IF Truthy(eng.content)
    THEN [value |-> eng.content, via |-> "cache", eng |-> eng]
    ELSE IF eng.path # NoPath /\ FileOf(eng.path) \in DOMAIN disk
    THEN LET read == Some(disk[FileOf(eng.path)].raw)
         IN [value |-> read, via |-> "path", eng |-> Engine(eng.store, eng.path, read)]
    ELSE IF FirstHtml(order) # 0
    THEN LET name == order[FirstHtml(order)]
             read == Some(disk[name].raw)
         IN [value |-> read, via |-> "scan",
             eng |-> Engine(eng.store, Join(UPLOAD_DIR, name), read)]
    ELSE [value |-> None, via |-> "none", eng |-> eng]

\* a resolution that prefers the engine's markup to the argument
ResolveEngineFirst(html_content, eng, disk, order) ==
    LET latest == get_latest_html_content(eng, disk, order)
    IN IF Truthy(latest.value) THEN latest
       ELSE [value |-> html_content, via |-> "override", eng |-> latest.eng]

\* line 159: html_content or self._get_latest_html_content()
resolve_html(html_content, eng, disk, order) ==
    IF Truthy(html_content)
    THEN [value |-> html_content, via |-> "override", eng |-> eng]
    ELSE get_latest_html_content(eng, disk, order)

---------------------------------------------------------------------------
(* RAGEngine._validate_selenium_script *)

\* a piece of script text: a lookup call By.<method>, "<selector>" with a
\* quoted literal (form "By"), a lookup whose argument is not a literal
\* (form "ByVar"), a Markdown fence, or other code
Piece(form, method, selector) == [form |-> form, method |-> method, selector |-> selector]

Fences == {Piece("fence", "", <<>>)}

\* lines 230-236
html_ids(markup) == {markup[i].id : i \in {j \in DOMAIN markup : markup[j].id # <<>>}}
html_names(markup) == {markup[i].name : i \in {j \in DOMAIN markup : markup[j].name # <<>>}}
html_classes(markup) == UNION {SeqToSet(markup[i].class) : i \in DOMAIN markup}

\* line 238: By\.(ID|NAME|CSS_SELECTOR)\s*,\s*['"]([^'"]+)['"]
Matches(piece) ==
    /\ piece.form = "By"
    /\ piece.method \in {"ID", "NAME", "CSS_SELECTOR"}
    /\ piece.selector # <<>>

\* selector_pattern.findall(script)
RECURSIVE findall(_)
findall(script) ==
    IF script = <<>> THEN <<>>
    ELSE (IF Matches(Head(script))
          THEN << <<Head(script).method, Head(script).selector>> >> ELSE <<>>)
         \o findall(Tail(script))

startswith(selector, prefix) == selector # <<>> /\ Head(selector) = prefix

\* a validator that looks a By.NAME literal up among the ids
IsMissingNameAmongIds(method, selector, markup) ==
    IF method \in {"ID", "NAME"} /\ selector \notin html_ids(markup) THEN TRUE
    ELSE IF method = "CSS_SELECTOR"
    THEN IF startswith(selector, "#") /\ Tail(selector) \notin html_ids(markup) THEN TRUE
         ELSE IF startswith(selector, ".") /\ Tail(selector) \notin html_classes(markup)
         THEN TRUE ELSE FALSE
    ELSE FALSE

\* lines 245-253: is this match reported as missing?
is_missing(method, selector, markup) ==
    IF method = "ID" /\ selector \notin html_ids(markup) THEN TRUE
    ELSE IF method = "NAME" /\ selector \notin html_names(markup) THEN TRUE
    ELSE IF method = "CSS_SELECTOR"
    THEN IF startswith(selector, "#") /\ Tail(selector) \notin html_ids(markup) THEN TRUE
         ELSE IF startswith(selector, ".") /\ Tail(selector) \notin html_classes(markup)
         THEN TRUE ELSE FALSE
    ELSE FALSE

\* lines 243-253: the missing list, in the order of the matches
RECURSIVE missing_selectors(_, _)
missing_selectors(matches, markup) ==
    IF matches = <<>> THEN <<>>
    ELSE (IF is_missing(Head(matches)[1], Head(matches)[2], markup)
          THEN <<Head(matches)>> ELSE <<>>)
         \o missing_selectors(Tail(matches), markup)

\* a validator without the test for a script that has no lookup at all
ValidateScriptAllowsNone(script, markup) ==
    LET missing == missing_selectors(findall(script), markup)
    IN IF missing # <<>> THEN [raised |-> "selector_error", detail |-> missing]
       ELSE [raised |-> "", detail |-> <<>>]

\* a validator that stops at the first missing selector
ValidateScriptFirstOnly(script, markup) ==
    LET matches == findall(script)
        missing == missing_selectors(matches, markup)
    IN IF matches = <<>> THEN [raised |-> "no_selectors", detail |-> <<>>]
       ELSE IF missing # <<>> THEN [raised |-> "selector_error", detail |-> <<Head(missing)>>]
       ELSE [raised |-> "", detail |-> <<>>]

\* _validate_selenium_script: [raised, detail]
validate_selenium_script(script, markup) ==
    LET matches == findall(script)
        missing == missing_selectors(matches, markup)
    IN IF matches = <<>> THEN [raised |-> "no_selectors", detail |-> <<>>]
       ELSE IF missing # <<>> THEN [raised |-> "selector_error", detail |-> missing]
       ELSE [raised |-> "", detail |-> <<>>]

---------------------------------------------------------------------------
(* POST /generate-script *)

\* line 201: the markup handed to _validate_selenium_script
validation_markup(html_source, eng) == html_source

\* line 200: the fences are removed from the model's answer
RECURSIVE CleanScript(_)
CleanScript(reply) ==
    IF reply = <<>> THEN <<>>
    ELSE (IF Head(reply) \in Fences THEN <<>> ELSE <<Head(reply)>>) \o CleanScript(Tail(reply))

ScriptResult(status, html_content, resolved, validated, before, reply, returned, detail) ==
    [op |-> "script", status |-> status, html_content |-> html_content,
     html_source |-> resolved.value, via |-> resolved.via, validated |-> validated,
     before |-> before, listed |-> DOMAIN uploadDir,
     reply |-> reply, returned |-> returned,
     script |-> IF returned THEN CleanScript(reply) ELSE <<>>, detail |-> detail]

\* The two retrievals of lines 154-157 only feed the prompt; the model's answer
\* is any reply, so they leave no trace in the outcome.
generate_selenium_script(html_content, reply, order) ==
    LET eng == Engine(store, latest_html_path, latest_html_content)
        resolved == resolve_html(html_content, eng, uploadDir, order)
        script == CleanScript(reply)
        against == validation_markup(resolved.value, eng)
        checked == validate_selenium_script(script, against.raw)
    IN /\ running = 0
       /\ latest_html_path' = resolved.eng.path
       /\ latest_html_content' = resolved.eng.content
       /\ result' = IF ~Truthy(resolved.value)
                    THEN ScriptResult("missing_markup", html_content, resolved, None,
                                      eng, reply, FALSE, <<>>)
                    ELSE IF checked.raised # ""
                    THEN ScriptResult(checked.raised, html_content, resolved, against,
                                      eng, reply, FALSE, checked.detail)
                    ELSE ScriptResult("ok", html_content, resolved, against,
                                      eng, reply, TRUE, <<>>)
       /\ UNCHANGED <<uploadDir, store, running, pc, files, buildNo, builds>>

GenerateScript(overrides, replies) ==
    \E html_content \in overrides : \E reply \in replies :
        \E order \in Orders(DOMAIN uploadDir) :
            generate_selenium_script(html_content, reply, order)

---------------------------------------------------------------------------
(* Inputs of the service specification *)

Overrides == {None, Some(EmptyMarkup), Some(Markup2)}

SysReplies ==
    {Reply(FALSE, <<>>),
     Reply(TRUE, <<TestCase(1, <<"a.md">>)>>),
     Reply(TRUE, <<TestCase(1, <<"ghost.md">>)>>)}

SysScripts ==
    {<<>>,
     <<Piece("By", "ID", <<"promo-code">>)>>,
     <<Piece("By", "NAME", <<"ghost">>)>>}

Build == \E r \in Requests : BuildReject(r) \/ BuildBegin(r) \/ BuildClear(r) \/ BuildIngest(r)

GenPlan == GenerateTestCases(SysReplies)

GenScript == GenerateScript(Overrides, SysScripts)

Next == Upload \/ Build \/ GenPlan \/ GenScript

Spec == Init /\ [][Next]_vars

---------------------------------------------------------------------------
(* The generators under arbitrary language-model output.  The knowledge    *)
(* base is one the service reaches: fresh, uploaded but not built, or      *)
(* built from the upload.                                                  *)

GroundedIn == {<<"a.md">>, <<WS, "a.md", WS>>, <<"ghost.md">>, <<WS>>, <<"p.html">>}

TestPlans ==
    {Reply(FALSE, <<>>)} \cup
    {Reply(TRUE, [i \in DOMAIN g |-> TestCase(i, g[i])]) : g \in SeqsUpTo(GroundedIn, MaxCases)}

Pieces ==
    {Piece("By", "ID", <<"promo-code">>),
     Piece("By", "ID", <<"promo">>),
     Piece("By", "NAME", <<"promo">>),
     Piece("By", "CSS_SELECTOR", <<"#", "apply-btn">>),
     Piece("By", "CSS_SELECTOR", <<".", "btn">>),
     Piece("By", "CSS_SELECTOR", <<"#">>),
     Piece("By", "CSS_SELECTOR", <<"div > p">>),
     Piece("By", "XPATH", <<"//input">>),
     Piece("ByVar", "ID", <<>>),
     Piece("fence", "", <<>>)}

Scripts == SeqsUpTo(Pieces, MaxScriptLen)

GenOverrides == {None, Some(Markup2)}

GenUploads ==
    {d \in UploadChoices : \A n \in DOMAIN d : d[n].utf8}

\* the engine after clear_database and ingest_documents of the batch
Built(d, order) ==
    ingest_documents(clear_database(Engine({}, NoPath, None), FALSE), d, PathList(order), 1)

InitGen ==
    /\ running = 0
    /\ pc = [r \in Requests |-> "idle"]
    /\ files = [r \in Requests |-> <<>>]
    /\ buildNo = [r \in Requests |-> 0]
    /\ result = [op |-> "init"]
    /\ \E d \in GenUploads :
         /\ uploadDir = d
         /\ \/ /\ store = {}
               /\ latest_html_path = NoPath
               /\ latest_html_content = None
               /\ builds = 0
            \/ /\ corpus_check(PathList(CHOOSE o \in Orders(DOMAIN d) : TRUE)) = "ok"
               /\ \E order \in Orders(DOMAIN d) :
                    /\ store = Built(d, order).eng.store
                    /\ latest_html_path = Built(d, order).eng.path
                    /\ latest_html_content = Built(d, order).eng.content
               /\ builds = 1

\* one generation request against each knowledge base
GenPlanAny == result.op = "init" /\ GenerateTestCases(TestPlans)

GenScriptAny == result.op = "init" /\ GenerateScript(GenOverrides, Scripts)

NextGen == GenPlanAny \/ GenScriptAny

SpecGen == InitGen /\ [][NextGen]_vars

---------------------------------------------------------------------------
(* Claims about the generators, checked under SpecGen *)

PlanReturned == result.op = "plan" /\ result.returned
ScriptReturned == result.op = "script" /\ result.returned

\* the Allowed-Sources Set is that of the call's own retrieval
AllowedFromRetrieval ==
    /\ result.retrieved \subseteq store
    /\ result.allowed_sources = {d.source_document : d \in result.retrieved}

\* C1 as stated: every grounded_in value of a returned TestPlan is a member
\* of the Allowed-Sources Set of that call's retrieval.
C1_GroundedAsStated ==
    PlanReturned =>
        /\ AllowedFromRetrieval
        /\ \A i \in DOMAIN result.test_cases :
               result.test_cases[i].grounded_in \in result.allowed_sources

\* C1 amended: when the Allowed-Sources Set of the call's retrieval is not
\* empty, every grounded_in value of a returned TestPlan, trimmed of the
\* whitespace around it, is a member of that set.
C1_GroundedTrimmed ==
    PlanReturned =>
        /\ AllowedFromRetrieval
        /\ result.allowed_sources # {} =>
               \A i \in DOMAIN result.test_cases :
                   Strip(result.test_cases[i].grounded_in) \in result.allowed_sources

\* a two-case plan is returned against a non-empty Allowed-Sources Set, one
\* of its citations padded with whitespace
C1_Witness ==
    /\ PlanReturned
    /\ result.allowed_sources # {}
    /\ Len(result.test_cases) >= 2
    /\ \E i \in DOMAIN result.test_cases :
           result.test_cases[i].grounded_in # Strip(result.test_cases[i].grounded_in)

\* the selector literal is present in the attribute set of its kind
Present(method, selector, markup) ==
    /\ method = "ID" => selector \in html_ids(markup)
    /\ method = "NAME" => selector \in html_names(markup)
    /\ (method = "CSS_SELECTOR" /\ startswith(selector, "#")) =>
           Tail(selector) \in html_ids(markup)
    /\ (method = "CSS_SELECTOR" /\ startswith(selector, ".")) =>
           Tail(selector) \in html_classes(markup)

\* C2: every selector literal extracted from a returned script exists in the
\* attribute set of its kind of the markup resolved for that call.
C2_SelectorsExist ==
    ScriptReturned =>
        /\ Truthy(result.html_source)
        /\ \A i \in DOMAIN result.script :
               Matches(result.script[i]) =>
                   Present(result.script[i].method, result.script[i].selector,
                           result.html_source.raw)

\* a script with two extracted lookups, one of them by name, is returned
\* against the cached markup
C2_Witness ==
    /\ ScriptReturned
    /\ result.via = "cache"
    /\ Len(findall(result.script)) >= 2
    /\ \E i \in DOMAIN result.script :
           Matches(result.script[i]) /\ result.script[i].method = "NAME"

\* the cases of the reply whose trimmed citation is not an allowed source
GroundingViolations ==
    {i \in DOMAIN result.reply.test_cases :
        Strip(result.reply.test_cases[i].grounded_in) \notin result.allowed_sources}

\* the lookups of the cleaned reply whose literal the resolved markup lacks
SelectorViolations ==
    LET script == CleanScript(result.reply)
    IN {i \in DOMAIN script :
           Matches(script[i]) /\
           ~Present(script[i].method, script[i].selector, result.html_source.raw)}

\* C8: when grounding or selector validation finds a violation the call
\* raises, nothing is returned, and the error names every violating item.
C8_AllViolationsReported ==
    /\ (result.op = "plan" /\ result.reply.parses /\ result.allowed_sources # {}
        /\ GroundingViolations # {}) =>
           /\ ~result.returned
           /\ result.status = "grounding_error"
           /\ Len(result.detail) = Cardinality(GroundingViolations)
           /\ \A i \in GroundingViolations :
                  \E j \in DOMAIN result.detail :
                      LET src == Strip(result.reply.test_cases[i].grounded_in)
                      IN result.detail[j] =
                             <<result.reply.test_cases[i].test_id,
                               IF src = <<>> THEN <<"missing">> ELSE src>>
    /\ (result.op = "script" /\ Truthy(result.html_source)
        /\ SelectorViolations # {}) =>
           /\ ~result.returned
           /\ result.status = "selector_error"
           /\ Len(result.detail) = Cardinality(SelectorViolations)
           /\ \A i \in SelectorViolations :
                  \E j \in DOMAIN result.detail :
                      result.detail[j] = <<CleanScript(result.reply)[i].method,
                                           CleanScript(result.reply)[i].selector>>

\* a script with two different missing selectors is rejected
C8_Witness ==
    /\ result.op = "script"
    /\ result.status = "selector_error"
    /\ Len(result.detail) >= 2
    /\ result.detail[1] # result.detail[2]

---------------------------------------------------------------------------
(* Claims about the service, checked under Spec *)

Idle == running = 0

BuildDone(status) == Idle /\ result.op = "build" /\ result.status = status

\* C3: once a build has completed successfully the store holds chunks of
\* exactly the files that build ingested, and no chunk of an earlier build.
C3_ExactlyLatestCorpus ==
    BuildDone("ok") =>
        /\ \A c \in store : c.build = result.build
        /\ {c.source_document : c \in store} = {<<n>> : n \in result.corpus}

\* the file names that are page markup, and those that are not
PageFiles(names) == {n \in names : Lower(Suffix(n)) \in HTML_EXTENSIONS}
SupportFiles(names) == names \ PageFiles(names)

BadCorpus(names) == names = {} \/ PageFiles(names) = {} \/ SupportFiles(names) = {}

\* C4: a build call on an upload area that is empty, or lacks a page-markup
\* file, or lacks a support file, is rejected and leaves the store and the
\* Cached Page State as they were: neither the clear nor the ingestion runs.
C4_RejectedBeforeMutation ==
    [][(Idle /\ result'.op = "build" /\ BadCorpus(DOMAIN uploadDir)) =>
          /\ result'.status \in {"no_files", "no_html", "no_support"}
          /\ store' = store
          /\ latest_html_path' = latest_html_path
          /\ latest_html_content' = latest_html_content
          /\ running' = 0
          /\ pc' = pc]_vars

\* a build is rejected for want of a support file while the store and the
\* Cached Page State hold an earlier corpus
C4_Witness ==
    /\ BuildDone("no_support")
    /\ store # {}
    /\ Truthy(latest_html_content)

\* C5: a script request without html_override, with the cached content and
\* the cached path both empty and no page-markup file in the upload area,
\* fails with the missing-markup error and returns no script.
C5_MissingMarkup ==
    (/\ result.op = "script"
     /\ ~result.html_content.some
     /\ ~result.before.content.some
     /\ result.before.path = NoPath
     /\ PageFiles(result.listed) = {}) =>
        /\ result.status = "missing_markup"
        /\ ~result.returned

\* such a request is made while the upload area holds a support document
\* and the model's answer would pass for some markup
C5_Witness ==
    /\ result.op = "script"
    /\ ~result.html_content.some
    /\ ~result.before.content.some
    /\ result.before.path = NoPath
    /\ result.listed # {}
    /\ PageFiles(result.listed) = {}
    /\ findall(CleanScript(result.reply)) # <<>>

\* C6: a search issued right after clear_database has returned, before any
\* add, finds nothing.
C6_EmptyAfterClear ==
    \A r \in Requests : pc[r] = "ingest" => similarity_search(store, TopK) = {{}}

\* C7: the clear and add steps of one build never interleave with those of
\* another, so the store never holds chunks of two different builds.
C7_BuildsSerialized ==
    /\ Cardinality({r \in Requests : pc[r] # "idle"}) <= 1
    /\ \A c, d \in store : c.build = d.build

\* the part of C7 about interleaving alone
BuildsNeverInterleave == Cardinality({r \in Requests : pc[r] # "idle"}) <= 1

\* C9: when a file of the batch fails to load, ingest_documents raises and
\* no chunk of that batch is in the store.
C9_NoPartialCommit ==
    (/\ Idle
     /\ result.op = "build"
     /\ result.status \in {"ok", "load_error"}
     /\ \E n \in result.corpus : ~uploadDir[n].utf8) =>
        /\ result.status = "load_error"
        /\ \A c \in store : c.build # result.build

\* a build fails on an undecodable file after the page markup of the same
\* batch has been loaded
C9_Witness ==
    /\ BuildDone("load_error")
    /\ Truthy(latest_html_content)

\* the markup of the first page file a scan of the upload area may find
ScanFinds(value) ==
    IF PageFiles(result.listed) = {} THEN value = None
    ELSE \E n \in PageFiles(result.listed) : value = Some(uploadDir[n].raw)

\* C10 as stated: the override if given, else the cached content if any, else
\* the cached path re-read, else the scan; the markup chosen is the one
\* validated.
C10_PriorityAsStated ==
    result.op = "script" =>
        /\ IF result.html_content.some THEN result.html_source = result.html_content
           ELSE IF result.before.content.some
           THEN result.html_source = result.before.content
           ELSE IF result.before.path # NoPath /\ FileOf(result.before.path) \in result.listed
           THEN result.html_source = Some(uploadDir[FileOf(result.before.path)].raw)
           ELSE ScanFinds(result.html_source)
        /\ result.status # "missing_markup" => result.validated = result.html_source

\* C10 amended: the override if given and not empty, else the cached content
\* if not empty, else the cached path re-read if the file exists, else the
\* scan; a call that resolves no markup or an empty one fails, and otherwise
\* the markup chosen is the one validated.
C10_PriorityNonEmpty ==
    result.op = "script" =>
        /\ IF Truthy(result.html_content) THEN result.html_source = result.html_content
           ELSE IF Truthy(result.before.content)
           THEN result.html_source = result.before.content
           ELSE IF result.before.path # NoPath /\ FileOf(result.before.path) \in result.listed
           THEN result.html_source = Some(uploadDir[FileOf(result.before.path)].raw)
           ELSE ScanFinds(result.html_source)
        /\ ~Truthy(result.html_source) <=> result.status = "missing_markup"
        /\ result.status # "missing_markup" => result.validated = result.html_source

\* a script is returned against markup re-read from the cached path while
\* an empty override was given
C10_Witness ==
    /\ ScriptReturned
    /\ result.via = "path"
    /\ result.html_content.some

---------------------------------------------------------------------------
(* The Cached Page State *)

CacheChanged ==
    <<latest_html_path', latest_html_content'>> # <<latest_html_path, latest_html_content>>

ClearStep == \E r \in Requests : pc[r] = "clear" /\ pc'[r] = "ingest"
IngestStep(r) == pc[r] = "ingest" /\ pc'[r] = "idle"

\* the files of the batch that ingestion loads: those before the first one
\* that cannot be read
LoadedIndexes(paths, disk) ==
    {i \in DOMAIN paths : \A j \in 1..i : Readable(disk, paths[j])}

\* the page-markup files among them
PagesLoaded(paths, disk) ==
    {i \in LoadedIndexes(paths, disk) : FileOf(paths[i]) \in PageFiles({FileOf(paths[i])})}

\* the cache holds the path and the verbatim markup of the page-markup file
\* that the ingestion of the batch loaded last
HoldsLastPageLoaded(paths, disk, path, content) ==
    /\ PagesLoaded(paths, disk) # {}
    /\ LET last == CHOOSE i \in PagesLoaded(paths, disk) :
                       \A j \in PagesLoaded(paths, disk) : j <= i
       IN /\ path = paths[last]
          /\ content = Some(disk[FileOf(paths[last])].raw)

SetByIngestion ==
    \E r \in Requests :
        /\ IngestStep(r)
        /\ HoldsLastPageLoaded(files[r], uploadDir, latest_html_path', latest_html_content')

ClearedByClear ==
    ClearStep /\ latest_html_path' = NoPath /\ latest_html_content' = None

\* script generation, finding the cached content empty, reads a page-markup
\* file of the upload area: the one at the cached path if it is still there
RecoveredByScriptGeneration ==
    /\ result'.op = "script"
    /\ ~Truthy(latest_html_content)
    /\ latest_html_path' # NoPath
    /\ FileOf(latest_html_path') \in PageFiles(DOMAIN uploadDir)
    /\ latest_html_path' = Join(UPLOAD_DIR, FileOf(latest_html_path'))
    /\ latest_html_content' = Some(uploadDir[FileOf(latest_html_path')].raw)
    /\ (latest_html_path # NoPath /\ FileOf(latest_html_path) \in DOMAIN uploadDir) =>
           latest_html_path' = latest_html_path

\* C11 as stated: the Cached Page State is set only when ingestion loads a
\* page-markup file, to that file's path and verbatim markup, and is
\* otherwise only cleared by clear_database; so a non-empty cache always
\* holds the page-markup document ingested last.
C11_SetOnlyByIngestion ==
    [][CacheChanged => (SetByIngestion \/ ClearedByClear)]_vars

\* C11 amended: the Cached Page State changes only in three ways: ingestion
\* sets it to the path and verbatim markup of the page-markup file it loaded
\* last, clear_database empties it, and script generation, when the cached
\* content is empty, sets it to the path and verbatim markup of a
\* page-markup file it reads from the upload area.
C11_SetByIngestionOrRecovery ==
    [][CacheChanged =>
          (SetByIngestion \/ ClearedByClear \/ RecoveredByScriptGeneration)]_vars

\* a build of a batch with two page-markup files has completed and the
\* cache holds one of them
C11_Witness ==
    /\ BuildDone("ok")
    /\ Cardinality(PageFiles(result.corpus)) = 2
    /\ Truthy(latest_html_content)
    /\ FileOf(latest_html_path) \in PageFiles(result.corpus)

---------------------------------------------------------------------------
(* clear_database and a failing deletion *)

LeavesClear(r) == pc[r] = "clear" /\ pc'[r] # "clear"

\* C12: clear_database never fails, whether or not delete_collection raises:
\* the build goes on to ingestion with no error response, the store handle is
\* bound to the same persistent collection (emptied by a deletion that
\* succeeded, as it was after one that raised), and the Cached Page State is
\* reset to empty.
C12_ClearToleratesDeletionError ==
    [][\A r \in Requests :
          LeavesClear(r) =>
              /\ pc'[r] = "ingest"
              /\ result' = result
              /\ store' \in {{}, store}
              /\ latest_html_path' = NoPath
              /\ latest_html_content' = None]_vars

\* clear_database has returned after a deletion that raised: the collection
\* still holds its chunks, the cache is empty and ingestion is next
C12_Witness ==
    \E r \in Requests :
        /\ pc[r] = "ingest"
        /\ store # {}
        /\ latest_html_path = NoPath
        /\ latest_html_content = None

---------------------------------------------------------------------------
(* Scripts without any recognised lookup *)

NoLookupFound == findall(CleanScript(result.reply)) = <<>>

\* C13: a generated script in which no by-id, by-name or by-css-selector
\* lookup with a literal argument is found is never returned, whatever the
\* page markup: selector validation rejects it, and the call fails.
C13_NoLookupRejected ==
    (result.op = "script" /\ NoLookupFound) =>
        /\ ~result.returned
        /\ result.status \in {"no_selectors", "missing_markup"}
        /\ Truthy(result.html_source) => result.status = "no_selectors"

\* a script made only of an XPath lookup and a lookup by a variable is
\* rejected against resolved, non-empty markup
C13_Witness ==
    /\ result.op = "script"
    /\ result.status = "no_selectors"
    /\ Truthy(result.html_source)
    /\ Len(CleanScript(result.reply)) >= 2
    /\ \E i \in DOMAIN result.reply : result.reply[i].form = "By"
====
